---- MODULE Spec2Model ----
(***************************************************************************)
(* SQL-Agentic-Chat: the /chat handler of app.py driving the LangGraph     *)
(* agent loop (llm node, should_continue, tools node) of sql_agent.py,     *)
(* with the SQL tools and the two SQLite databases they read.              *)
(*                                                                         *)
(* Text (message contents, SQL, error strings) is a sequence of tokens:    *)
(* the empty text is << >>, concatenation is \o.                           *)
(***************************************************************************)
EXTENDS Naturals, Sequences, FiniteSets, TLC

VARIABLES chat, db, openConns, connects

vars == <<chat, db, openConns, connects>>

(* ------------------------------ bounds --------------------------------- *)

\* Longest conversation_history a request body carries.
MaxHistory == 1
\* Tool calls the language model asks for while one request is handled.
MaxToolCalls == 2

Req == {"r1", "r2"}

SeqsUpTo(S, n) == UNION {[1..k -> S] : k \in 0..n}

(* --------------------------- SQL text, sqlparse ------------------------ *)

Upper(tok) ==
  CASE tok = "select" -> "SELECT"
    [] tok = "drop" -> "DROP"
    [] OTHER -> tok

Lower(tok) ==
  CASE tok = "SELECT" -> "select"
    [] tok = "DROP" -> "drop"
    [] tok = "UNKNOWN" -> "unknown"
    [] OTHER -> tok

\* sqlparse.parse: the statements of the text, split at ";"; no statement
\* for an empty text.
RECURSIVE SplitFrom(_, _, _)
SplitFrom(text, i, cur) ==
  IF i > Len(text) THEN (IF cur = << >> THEN << >> ELSE <<cur>>)
  ELSE IF text[i] = ";" THEN <<cur>> \o SplitFrom(text, i + 1, << >>)
  ELSE SplitFrom(text, i + 1, Append(cur, text[i]))

sqlparse_parse(text) == SplitFrom(text, 1, << >>)

\* Statement.get_type(): the upper-cased first keyword when it is a DML or
\* DDL keyword, "UNKNOWN" otherwise.
get_type(stmt) ==
  IF Len(stmt) > 0 /\ Upper(stmt[1]) \in {"SELECT", "DROP"}
  THEN Upper(stmt[1]) ELSE "UNKNOWN"

(* ------------------------------ sqlite3 -------------------------------- *)

Databases == {"titanic", "finance"}

\* The tables of data/titanic.db and data/aug_personal_transactions_with_UserId.db.
InitialDb == [d \in Databases |->
               IF d = "titanic" THEN {"titanic"} ELSE {"transactions"}]

\* cursor.execute(text) on a database holding `tables`.
sqlite_execute(tables, text) ==
  LET stmts == sqlparse_parse(text)
      s == stmts[1]
      kw == get_type(s)
  IN IF Len(stmts) = 0
       THEN [raised |-> FALSE, err |-> "", tables |-> tables]
     ELSE IF Len(stmts) > 1
       THEN [raised |-> TRUE, tables |-> tables,
             err |-> "You can only execute one statement at a time."]
     ELSE IF kw = "UNKNOWN" \/ Len(s) < 2
       THEN [raised |-> TRUE, err |-> "syntax error", tables |-> tables]
     ELSE IF s[2] \notin tables
       THEN [raised |-> TRUE, err |-> "no such table", tables |-> tables]
     ELSE IF kw = "DROP"
       THEN [raised |-> FALSE, err |-> "", tables |-> tables \ {s[2]}]
     ELSE [raised |-> FALSE, err |-> "", tables |-> tables]

(* ------------------------------- tools --------------------------------- *)

\* What a tool sees and changes: the tables of each database, the
\* connections that were opened and not closed, and the sqlite3.connect
\* calls made so far.
Env(d, n, k) == [db |-> d, open |-> n, connects |-> k]

Returned(payload, env) == [raised |-> FALSE, err |-> "", payload |-> payload, env |-> env]

Raised(err, env) == [raised |-> TRUE, err |-> err, payload |-> << >>, env |-> env]

connect(env) == [env EXCEPT !.open = @ + 1, !.connects = @ + 1]

close(env) == [env EXCEPT !.open = @ - 1]

ReadOnlyError == <<"error", "Only read-only queries are supported">>

execute_titanic_sql_query(query, env) ==
  LET stmts == sqlparse_parse(query)
      conn == connect(env)
      run == sqlite_execute(conn.db["titanic"], query)
      after == [conn EXCEPT !.db["titanic"] = run.tables]
  IN IF Len(stmts) = 0 THEN Raised("tuple index out of range", env)
     ELSE IF Lower(get_type(stmts[1])) = "select"
       THEN IF run.raised THEN Raised(run.err, after)
            ELSE Returned(<<"result", "rows">>, close(after))
     ELSE Returned(ReadOnlyError, env)

\* As execute_finance_sql_query, had it run every statement it could classify.
execute_finance_sql_query_unguarded(query, env) ==
  LET stmts == sqlparse_parse(query)
      conn == connect(env)
      run == sqlite_execute(conn.db["finance"], query)
      after == [conn EXCEPT !.db["finance"] = run.tables]
  IN IF Len(stmts) = 0 THEN Raised("tuple index out of range", env)
     ELSE IF run.raised THEN Raised(run.err, after)
     ELSE Returned(<<"result", "rows">>, close(after))

execute_finance_sql_query(query, env) ==
  LET stmts == sqlparse_parse(query)
      conn == connect(env)
      run == sqlite_execute(conn.db["finance"], query)
      after == [conn EXCEPT !.db["finance"] = run.tables]
  IN IF Len(stmts) = 0 THEN Raised("tuple index out of range", env)
     ELSE IF Lower(get_type(stmts[1])) = "select"
       THEN IF run.raised THEN Raised(run.err, after)
            ELSE Returned(<<"result", "rows">>, close(after))
     ELSE Returned(ReadOnlyError, env)

get_table_names(env) ==
  LET conn == connect(env)
  IN Returned(<<"result", "tables">>, close(conn))

get_table_columns(table_name, env) ==
  LET conn == connect(env)
  IN Returned(<<"result", "columns">>, close(conn))

get_table_row_example(table_name, env) ==
  LET conn == connect(env)
      run == sqlite_execute(conn.db["finance"], <<"SELECT", table_name>>)
  IN IF run.raised
       THEN Returned(<<"error", "Failed to get table row example:", run.err>>, conn)
     ELSE Returned(<<"result", "rows">>, close(conn))

get_human_input(prompt, env) == Returned(<<"user_input", "line">>, env)

\* tools / tools_by_name: each tool's name and the keys its args_schema requires.
tools == {[name |-> "get_human_input", required |-> {"prompt"}],
          [name |-> "execute_titanic_sql_query", required |-> {"query"}],
          [name |-> "execute_finance_sql_query", required |-> {"query"}],
          [name |-> "get_table_names", required |-> {}],
          [name |-> "get_table_columns", required |-> {"table_name"}],
          [name |-> "get_table_row_example", required |-> {"table_name"}]}

tools_by_name == [n \in {t.name : t \in tools} |-> CHOOSE t \in tools : t.name = n]

\* The arguments of a tool call: the keys the mapping holds and their values.
Args(keys, query, table_name) ==
  [keys |-> keys, query |-> query, table_name |-> table_name]

\* BaseTool.invoke(args): the arguments are validated against the tool's
\* schema, then the tool's function runs.
invoke(name, args, env) ==
  IF ~(tools_by_name[name].required \subseteq args.keys)
    THEN Raised("validation error", env)
  ELSE CASE name = "execute_titanic_sql_query" -> execute_titanic_sql_query(args.query, env)
         [] name = "execute_finance_sql_query" -> execute_finance_sql_query(args.query, env)
         [] name = "get_table_names" -> get_table_names(env)
         [] name = "get_table_columns" -> get_table_columns(args.table_name, env)
         [] name = "get_table_row_example" -> get_table_row_example(args.table_name, env)
         [] OTHER -> get_human_input(<< >>, env)

(* ------------------------------ messages ------------------------------- *)

HumanMessage(content) ==
  [type |-> "human", content |-> content, tool_calls |-> << >>,
   name |-> "", tool_call_id |-> 0]

AIMessage(content, tool_calls) ==
  [type |-> "ai", content |-> content, tool_calls |-> tool_calls,
   name |-> "", tool_call_id |-> 0]

\* ToolMessage coerces a content that is neither a string nor a list with str().
ToolMessage(content, name, tool_call_id) ==
  [type |-> "tool", content |-> <<"{">> \o content \o <<"}">>, tool_calls |-> << >>,
   name |-> name, tool_call_id |-> tool_call_id]

\* A ("user", c) or ("assistant", c) pair of the graph's input, as the
\* add_messages reducer converts it.
convert_to_message(pair) ==
  IF pair[1] = "user" THEN HumanMessage(pair[2]) ELSE AIMessage(pair[2], << >>)

\* As add_messages, had the new messages replaced the conversation.
add_messages_overwrite(left, right) == right

\* The add_messages reducer: every new message has a fresh id, so the new
\* messages go after the old ones.
add_messages(left, right) == left \o right

(* --------------------------- the graph's nodes ------------------------- *)

\* As RunToolCalls, had a call whose tool raises been passed over.
RECURSIVE RunToolCalls_skips_failures(_, _, _, _)
RunToolCalls_skips_failures(calls, i, outputs, env) ==
  IF i > Len(calls)
    THEN [raised |-> FALSE, err |-> "", outputs |-> outputs, env |-> env, invoked |-> i - 1]
  ELSE IF calls[i].name \notin DOMAIN tools_by_name
    THEN RunToolCalls_skips_failures(calls, i + 1, outputs, env)
  ELSE LET r == invoke(calls[i].name, calls[i].args, env)
       IN RunToolCalls_skips_failures(
            calls, i + 1,
            IF r.raised THEN outputs
            ELSE Append(outputs, ToolMessage(r.payload, calls[i].name, calls[i].id)),
            r.env)

\* call_tool: the tool calls of the last message, in order; an exception of
\* a lookup or of a tool ends the node.
RECURSIVE RunToolCalls(_, _, _, _)
RunToolCalls(calls, i, outputs, env) ==
  IF i > Len(calls)
    THEN [raised |-> FALSE, err |-> "", outputs |-> outputs, env |-> env, invoked |-> i - 1]
  ELSE IF calls[i].name \notin DOMAIN tools_by_name
    THEN [raised |-> TRUE, err |-> calls[i].name, outputs |-> outputs, env |-> env,
          invoked |-> i - 1]
  ELSE LET r == invoke(calls[i].name, calls[i].args, env)
       IN IF r.raised
            THEN [raised |-> TRUE, err |-> r.err, outputs |-> outputs, env |-> r.env,
                  invoked |-> i]
          ELSE RunToolCalls(calls, i + 1,
                            Append(outputs, ToolMessage(r.payload, calls[i].name, calls[i].id)),
                            r.env)

call_tool(messages, env) ==
  RunToolCalls(messages[Len(messages)].tool_calls, 1, << >>, env)

\* As should_continue, had it ended the loop once the conversation has four
\* messages.
should_continue_capped(messages) ==
  IF messages[Len(messages)].tool_calls = << >> \/ Len(messages) >= 4
    THEN "end" ELSE "continue"

\* As should_continue, had it ended the loop on a message with content.
should_continue_by_content(messages) ==
  IF messages[Len(messages)].content # << >> THEN "end" ELSE "continue"

should_continue(messages) ==
  IF messages[Len(messages)].tool_calls = << >> THEN "end" ELSE "continue"

(* ---------------------------- the request ------------------------------ *)

\* An entry of conversation_history: a mapping that may lack its 'type' key.
HistoryEntry(has_type, type, content) ==
  [has_type |-> has_type, type |-> type, content |-> content]

HistoryEntries ==
  {HistoryEntry(TRUE, "user", <<"earlier question">>),
   HistoryEntry(TRUE, "agent", <<"earlier answer">>),
   HistoryEntry(TRUE, "system", <<"note">>),
   HistoryEntry(FALSE, "", <<"untyped">>)}

\* request.get_json(): a JSON object (with the keys it holds), another JSON
\* value, or a body that is no JSON (get_json raises).
Body(kind, keys, message, history) ==
  [kind |-> kind, keys |-> keys, message |-> message, conversation_history |-> history]

BodiesWith(n) ==
  {Body("object", {"message", "conversation_history"}, m, h) :
     m \in {<< >>, <<"question">>}, h \in SeqsUpTo(HistoryEntries, n)}
  \cup {Body("object", {"conversation_history"}, << >>, h) :
          h \in SeqsUpTo(HistoryEntries, n)}
  \cup {Body("object", {"message"}, <<"question">>, << >>),
        Body("array", {}, << >>, << >>),
        Body("invalid", {}, << >>, << >>)}

Bodies == BodiesWith(MaxHistory)

NoResponse == [status |-> 0, error |-> << >>, response |-> << >>, all_messages |-> << >>]

\* jsonify(...), status
Json(status, error, response, all_messages) ==
  [status |-> status, error |-> error, response |-> response, all_messages |-> all_messages]

\* The handler's locals for a request that has arrived and is not yet
\* handled, with the graph's state (messages; number_of_steps, a key the
\* input never holds) and what the model does for it: the tool calls it
\* knows to ask for (repertoire) and how many it asks for at most (budget).
Arrived(body, repertoire, budget) ==
  [pc |-> "received", pass |-> "primary", node |-> "none", body |-> body,
   bound |-> FALSE, user_message |-> << >>,
   messages |-> << >>, number_of_steps |-> "unset",
   all_messages |-> << >>, final_response |-> << >>,
   error_msg |-> "", retry_response |-> << >>,
   response |-> NoResponse, log |-> << >>,
   runs |-> << >>, model_calls |-> 0, tool_calls |-> 0, issued |-> 0, attempts |-> 0,
   repertoire |-> repertoire, budget |-> budget]

Received(body) == Arrived(body, "all", MaxToolCalls)

Absent == [Received(Body("invalid", {}, << >>, << >>)) EXCEPT !.pc = "absent"]

(* --------------------------- chat(): app.py ---------------------------- *)

\* As ConvertHistory, had every entry not tagged "user" been taken for the
\* agent's.
RECURSIVE ConvertHistory_else_assistant(_, _, _)
ConvertHistory_else_assistant(history, i, messages) ==
  IF i > Len(history) THEN [raised |-> FALSE, err |-> "", messages |-> messages]
  ELSE IF ~history[i].has_type THEN [raised |-> TRUE, err |-> "'type'", messages |-> messages]
  ELSE IF history[i].type = "user"
    THEN ConvertHistory_else_assistant(history, i + 1,
                                       Append(messages, <<"user", history[i].content>>))
  ELSE ConvertHistory_else_assistant(history, i + 1,
                                     Append(messages, <<"assistant", history[i].content>>))

\* Lines 59-64: history entries tagged "user" or "agent" become pairs; an
\* entry without a 'type' key raises KeyError.
RECURSIVE ConvertHistory(_, _, _)
ConvertHistory(history, i, messages) ==
  IF i > Len(history) THEN [raised |-> FALSE, err |-> "", messages |-> messages]
  ELSE IF ~history[i].has_type THEN [raised |-> TRUE, err |-> "'type'", messages |-> messages]
  ELSE IF history[i].type = "user"
    THEN ConvertHistory(history, i + 1, Append(messages, <<"user", history[i].content>>))
  ELSE IF history[i].type = "agent"
    THEN ConvertHistory(history, i + 1, Append(messages, <<"assistant", history[i].content>>))
  ELSE ConvertHistory(history, i + 1, messages)

\* graph.stream(inputs, stream_mode="values"): the graph's state starts as
\* the input's messages, and that state is the first one streamed.
StreamInput(pairs) ==
  add_messages(<< >>, [i \in 1..Len(pairs) |-> convert_to_message(pairs[i])])

\* As Collect, had it kept the contents of assistant messages only.
Collect_assistant_only(c, messages) ==
  IF messages # << >> /\ messages[Len(messages)].content # << >>
       /\ messages[Len(messages)].type = "ai"
    THEN [c EXCEPT !.messages = messages,
                   !.all_messages = Append(@, [type |-> "agent",
                                               content |-> messages[Len(messages)].content]),
                   !.final_response = messages[Len(messages)].content]
  ELSE [c EXCEPT !.messages = messages]

\* Lines 78-87: the body of the primary pass's loop over the streamed states.
Collect(c, messages) ==
  IF messages # << >> /\ messages[Len(messages)].content # << >>
    THEN [c EXCEPT !.messages = messages,
                   !.all_messages = Append(@, [type |-> "agent",
                                               content |-> messages[Len(messages)].content]),
                   !.final_response = messages[Len(messages)].content]
  ELSE [c EXCEPT !.messages = messages]

\* Lines 118-122: the body of the recovery pass's loop.
RetryCollect(c, messages) ==
  IF messages # << >> /\ messages[Len(messages)].content # << >>
    THEN [c EXCEPT !.messages = messages,
                   !.retry_response = messages[Len(messages)].content]
  ELSE [c EXCEPT !.messages = messages]

Collected(c, messages) ==
  IF c.pass = "primary" THEN Collect(c, messages) ELSE RetryCollect(c, messages)

ErrorText(error_msg) ==
  <<"I encountered an error:", error_msg,
    ". Please try rephrasing your question or check if all dependencies are properly installed.">>

ApologyPrefix == <<"I encountered an issue while processing your request, but I'll try to help:">>

\* Lines 103-111
ErrorContext(user_message, error_msg) ==
  <<"The user asked:">> \o user_message \o <<"But an error occurred:", error_msg,
    "Please provide a helpful response to the user's original question">>

Respond(c, response) == [c EXCEPT !.pc = "responded", !.response = response]

\* As RetryExcept, had it reported the recovery pass's error.
RetryExcept_reports_retry_error(c, retry_error) ==
  Respond([c EXCEPT !.log = Append(@, <<"Error in retry attempt:", retry_error>>)],
          Json(500, ErrorText(retry_error), << >>, << >>))

\* Lines 134-138: the recovery pass raised.
RetryExcept(c, retry_error) ==
  Respond([c EXCEPT !.log = Append(@, <<"Error in retry attempt:", retry_error>>)],
          Json(500, ErrorText(c.error_msg), << >>, << >>))

\* As Except, had the recovery pass gone on from the failed run's
\* conversation.
Except_resumes_conversation(c, e) ==
  LET logged == [c EXCEPT !.pass = "recovery", !.error_msg = e,
                          !.log = @ \o << <<"Error in chat endpoint:", e>>,
                                          <<"Full traceback:", e>> >>]
      started == [logged EXCEPT !.pc = "streaming", !.node = "llm",
                                !.runs = Append(@, "recovery"),
                                !.retry_response = << >>]
  IN IF ~c.bound THEN RetryExcept(logged, "name 'user_message' is not defined")
     ELSE RetryCollect(started,
                       add_messages(c.messages,
                                    StreamInput(<< <<"user", ErrorContext(c.user_message, e)>> >>)))

\* As Except, had the error context been built outside the inner try: the
\* NameError leaves the handler, which sends no response of its own.
Except_context_outside_try(c, e) ==
  LET logged == [c EXCEPT !.pass = "recovery", !.error_msg = e,
                          !.log = @ \o << <<"Error in chat endpoint:", e>>,
                                          <<"Full traceback:", e>> >>]
      started == [logged EXCEPT !.pc = "streaming", !.node = "llm",
                                !.runs = Append(@, "recovery"),
                                !.retry_response = << >>]
  IN IF ~c.bound THEN [logged EXCEPT !.pc = "responded"]
     ELSE RetryCollect(started, StreamInput(<< <<"user", ErrorContext(c.user_message, e)>> >>))

\* Lines 94-122, up to the first state the recovery pass streams: the
\* error is logged, the error context is built (a NameError when
\* user_message was never bound) and a second run of the graph starts.
Except(c, e) ==
  LET logged == [c EXCEPT !.pass = "recovery", !.error_msg = e,
                          !.log = @ \o << <<"Error in chat endpoint:", e>>,
                                          <<"Full traceback:", e>> >>]
      started == [logged EXCEPT !.pc = "streaming", !.node = "llm",
                                !.runs = Append(@, "recovery"),
                                !.retry_response = << >>]
  IN IF ~c.bound THEN RetryExcept(logged, "name 'user_message' is not defined")
     ELSE RetryCollect(started, StreamInput(<< <<"user", ErrorContext(c.user_message, e)>> >>))

\* An exception leaves the graph (or the code before it): the primary
\* pass's goes to the outer except clause, the recovery pass's to the inner.
Raise(c, e) == IF c.pass = "primary" THEN Except(c, e) ELSE RetryExcept(c, e)

\* As Finish, without the check of line 124: the recovery pass always
\* answers 200.
Finish_unchecked(c) ==
  IF c.pass = "primary"
    THEN Respond(c, Json(200, << >>, c.final_response, c.all_messages))
  ELSE Respond(c, Json(200, << >>, ApologyPrefix \o c.retry_response,
                       <<[type |-> "agent", content |-> c.retry_response]>>))

\* Lines 89-92 and 124-132: the stream is exhausted.
Finish(c) ==
  IF c.pass = "primary"
    THEN Respond(c, Json(200, << >>, c.final_response, c.all_messages))
  ELSE IF c.retry_response # << >>
    THEN Respond(c, Json(200, << >>, ApologyPrefix \o c.retry_response,
                         <<[type |-> "agent", content |-> c.retry_response]>>))
  ELSE Respond(c, Json(500, ErrorText(c.error_msg), << >>, << >>))

\* As chat_begin, without the check of lines 55-56.
chat_begin_unchecked(c) ==
  LET data == c.body
      user_message == IF "message" \in data.keys THEN data.message ELSE << >>
      conversation_history ==
        IF "conversation_history" \in data.keys THEN data.conversation_history ELSE << >>
      got == [c EXCEPT !.bound = TRUE, !.user_message = user_message]
      conv == ConvertHistory(conversation_history, 1, << >>)
      inputs == Append(conv.messages, <<"user", user_message>>)
  IN IF data.kind = "invalid" THEN Except(c, "400 Bad Request")
     ELSE IF data.kind # "object" THEN Except(c, "object has no attribute 'get'")
     ELSE IF conv.raised THEN Except(got, conv.err)
     ELSE Collect([got EXCEPT !.pc = "streaming", !.node = "llm",
                       !.runs = Append(@, "primary")],
                  StreamInput(inputs))

\* Lines 50-77, up to the first streamed state.
chat_begin(c) ==
  LET data == c.body
      user_message == IF "message" \in data.keys THEN data.message ELSE << >>
      conversation_history ==
        IF "conversation_history" \in data.keys THEN data.conversation_history ELSE << >>
      got == [c EXCEPT !.bound = TRUE, !.user_message = user_message]
      conv == ConvertHistory(conversation_history, 1, << >>)
      inputs == Append(conv.messages, <<"user", user_message>>)
  IN IF data.kind = "invalid" THEN Except(c, "400 Bad Request")
     ELSE IF data.kind # "object" THEN Except(c, "object has no attribute 'get'")
     ELSE IF user_message = << >>
       THEN Respond(got, Json(400, <<"No message provided">>, << >>, << >>))
     ELSE IF conv.raised THEN Except(got, conv.err)
     ELSE Collect([got EXCEPT !.pc = "streaming", !.node = "llm",
                       !.runs = Append(@, "primary")],
                  StreamInput(inputs))

(* ------------------------- the language model -------------------------- *)

ToolCall(name, args, id) == [name |-> name, args |-> args, id |-> id]

\* The tool calls the model may ask for: name and arguments.
ToolCallShapes ==
  {<<"execute_titanic_sql_query", Args({"query"}, <<"select", "titanic">>, "")>>,
   <<"execute_titanic_sql_query", Args({"query"}, <<"SELECT", "crew">>, "")>>,
   <<"execute_titanic_sql_query", Args({"query"}, <<"drop", "titanic">>, "")>>,
   <<"execute_finance_sql_query", Args({"query"}, <<"DROP", "transactions">>, "")>>,
   <<"execute_finance_sql_query", Args({"query"}, << >>, "")>>,
   <<"execute_finance_sql_query",
     Args({"query"}, <<"SELECT", "transactions", ";", "DROP", "transactions">>, "")>>,
   <<"get_table_names", Args({}, << >>, "")>>,
   <<"get_table_columns", Args({}, << >>, "")>>,
   <<"run_shell", Args({}, << >>, "")>>}

\* The tool calls the model asks for when several requests are in flight.
FewToolCallShapes ==
  {<<"execute_titanic_sql_query", Args({"query"}, <<"select", "titanic">>, "")>>,
   <<"execute_titanic_sql_query", Args({"query"}, <<"SELECT", "crew">>, "")>>}

Repertoire(name) == IF name = "all" THEN ToolCallShapes ELSE FewToolCallShapes

Contents == {<< >>, <<"answer">>}

\* llm = ChatGoogleGenerativeAI(..., max_retries=2): the retries of a
\* service call that failed, after which model.invoke raises.
max_retries == 2

\* The failed service calls of the model.invoke in progress (those of an
\* invoke that raised are kept until the next one starts).
Invoking(c) == IF c.attempts > max_retries THEN [c EXCEPT !.attempts = 0] ELSE c

\* model.invoke(...): an AssistantMessage with any content and any batch of
\* tool calls (each with an id of its own).
ModelResponses(c) ==
  {AIMessage(content, [i \in 1..Len(shapes) |->
                         ToolCall(shapes[i][1], shapes[i][2], c.issued + i)]) :
     content \in Contents,
     shapes \in SeqsUpTo(Repertoire(c.repertoire), c.budget - c.issued)}

(* ------------------------- steps of the graph -------------------------- *)

\* As workflow, had the tools node been wired to the graph's end.
workflow_tools_to_end(node, messages) ==
  IF node = "llm"
    THEN (IF should_continue(messages) = "continue" THEN "tools" ELSE "END")
  ELSE "END"

\* The compiled graph's edges: llm -> should_continue -> tools | END,
\* tools -> llm.
workflow(node, messages) ==
  IF node = "llm"
    THEN (IF should_continue(messages) = "continue" THEN "tools" ELSE "END")
  ELSE "llm"

\* The llm node returned `response`: the reducer appends it, the state is
\* streamed to the handler's loop, and the graph moves on or ends.
llm_step(c, response) ==
  LET messages == add_messages(c.messages, <<response>>)
      seen == Collected([c EXCEPT !.model_calls = @ + 1,
                                  !.issued = @ + Len(response.tool_calls),
                                  !.node = workflow("llm", messages)], messages)
  IN IF seen.node = "END" THEN Finish(seen) ELSE seen

\* As llm_raise, had call_model answered in the model's place.
llm_raise_synthesized(c) ==
  llm_step(c, AIMessage(<<"The model is not available.">>, << >>))

\* The llm node raised: model.invoke failed after its retries.
llm_raise(c) == Raise([c EXCEPT !.model_calls = @ + 1], "ModelInvocationError")

\* The tools node ran (`ran` is call_tool's outcome).
tools_step(c, ran) ==
  LET counted == [c EXCEPT !.tool_calls = @ + ran.invoked]
  IN IF ran.raised THEN Raise(counted, ran.err)
     ELSE Collected([counted EXCEPT !.node = workflow("tools", c.messages)],
                    add_messages(c.messages, ran.outputs))

(* ------------------------------ actions -------------------------------- *)

Init ==
  /\ \E body \in Bodies :
       chat = [r \in Req |-> IF r = "r1" THEN Received(body) ELSE Absent]
  /\ db = InitialDb
  /\ openConns = 0
  /\ connects = 0

\* As Chat, had the graph's input been added to a conversation that the
\* requests in flight share.
Chat_shared_conversation(r) ==
  /\ chat[r].pc = "received"
  /\ chat' = [q \in Req |->
                IF q = r THEN chat_begin(chat[r])
                ELSE IF chat[q].pc = "streaming"
                  THEN [chat[q] EXCEPT !.messages = @ \o chat_begin(chat[r]).messages]
                ELSE chat[q]]
  /\ UNCHANGED <<db, openConns, connects>>

Chat(r) ==
  /\ chat[r].pc = "received"
  /\ chat' = [chat EXCEPT ![r] = chat_begin(chat[r])]
  /\ UNCHANGED <<db, openConns, connects>>

CallModel(r) ==
  /\ chat[r].pc = "streaming"
  /\ chat[r].node = "llm"
  /\ LET c == Invoking(chat[r])
     IN \/ \E response \in ModelResponses(c) :
             chat' = [chat EXCEPT ![r] = llm_step([c EXCEPT !.attempts = 0], response)]
        \/ /\ c.attempts < max_retries
           /\ chat' = [chat EXCEPT ![r] = [c EXCEPT !.attempts = @ + 1]]
        \/ /\ c.attempts = max_retries
           /\ chat' = [chat EXCEPT ![r] = llm_raise([c EXCEPT !.attempts = @ + 1])]
  /\ UNCHANGED <<db, openConns, connects>>

CallTool(r) ==
  /\ chat[r].pc = "streaming"
  /\ chat[r].node = "tools"
  /\ LET ran == call_tool(chat[r].messages, Env(db, openConns, connects))
     IN /\ chat' = [chat EXCEPT ![r] = tools_step(chat[r], ran)]
        /\ db' = ran.env.db
        /\ openConns' = ran.env.open
        /\ connects' = ran.env.connects

\* The handler and the model's first answers, for one request with a longer
\* history and a model that asks for no tool.
MaxSeedHistory == 3

InitSeed ==
  /\ \E body \in BodiesWith(MaxSeedHistory) :
       chat = [r \in Req |-> IF r = "r1" THEN Arrived(body, "all", 0) ELSE Absent]
  /\ db = InitialDb
  /\ openConns = 0
  /\ connects = 0

NextSeed == \E r \in Req : Chat(r) \/ CallModel(r)

SpecSeed == InitSeed /\ [][NextSeed]_vars

Next == \E r \in Req : Chat(r) \/ CallModel(r) \/ CallTool(r)

Spec == Init /\ [][Next]_vars

\* One request without a history, whose handler's thread runs on until it
\* has answered; the model asks for the few tool calls.
InitFair ==
  /\ \E body \in BodiesWith(0) :
       chat = [r \in Req |-> IF r = "r1" THEN Arrived(body, "few", MaxToolCalls)
                             ELSE Absent]
  /\ db = InitialDb
  /\ openConns = 0
  /\ connects = 0

SpecFair == InitFair /\ [][Next]_vars /\ WF_vars(Next)

(* ------------------------- notions the claims use ---------------------- *)

\* Two requests in flight, each handled by a thread of its own; the model
\* asks for at most MaxConcToolCalls tool calls per request.
MaxConcToolCalls == 1

ConcBody(r) ==
  IF r = "r1"
    THEN Body("object", {"message", "conversation_history"}, <<"question">>,
              <<HistoryEntry(TRUE, "user", <<"earlier question">>)>>)
  ELSE Body("object", {"message"}, <<"other question">>, << >>)

InitConc ==
  /\ chat = [r \in Req |-> Arrived(ConcBody(r), "few", MaxConcToolCalls)]
  /\ db = InitialDb
  /\ openConns = 0
  /\ connects = 0

SpecConc == InitConc /\ [][Next]_vars

Last(seq) == seq[Len(seq)]

Max(S) == CHOOSE x \in S : \A y \in S : y <= x

\* The body's message is empty or missing.
NoMessage(body) ==
  body.kind = "object" /\ ("message" \notin body.keys \/ body.message = << >>)

\* The messages the current run of the graph started from.
SeedLen(c) ==
  IF c.pass = "primary"
    THEN Len(ConvertHistory(IF "conversation_history" \in c.body.keys
                              THEN c.body.conversation_history ELSE << >>,
                            1, << >>).messages) + 1
  ELSE 1

\* The messages the current run's nodes appended.
Produced(c) == SubSeq(c.messages, SeedLen(c) + 1, Len(c.messages))

IsAI(m) == m.type = "ai"

HasContent(m) == m.content # << >>

SqlTools == {"execute_titanic_sql_query", "execute_finance_sql_query"}

\* The tool calls the tools node of request r is about to run.
PendingCalls(r) == Last(chat[r].messages).tool_calls

\* This step is the tools node of request r.
ToolsStepOf(r) ==
  /\ chat[r].pc = "streaming"
  /\ chat[r].node = "tools"
  /\ chat'[r] # chat[r]

\* An SQL tool call whose text is classified, and not as a SELECT.
NonSelect(tc) ==
  /\ tc.name \in SqlTools
  /\ "query" \in tc.args.keys
  /\ sqlparse_parse(tc.args.query) # << >>
  /\ Lower(get_type(sqlparse_parse(tc.args.query)[1])) # "select"

\* An SQL tool call whose text holds no statement to classify.
Unclassifiable(tc) ==
  /\ tc.name \in SqlTools
  /\ "query" \in tc.args.keys
  /\ sqlparse_parse(tc.args.query) = << >>

(* ------------------------------- claims -------------------------------- *)

\* C1: a request whose message is empty or missing is answered 400 with
\* "No message provided", and no run of the graph, no model invocation and
\* no tool invocation ever happens for it, in neither pass.
C1_EmptyMessageRejected ==
  \A r \in Req :
    (chat[r].pc # "absent" /\ NoMessage(chat[r].body)) =>
      /\ chat[r].pc \in {"received", "responded"}
      /\ chat[r].runs = << >> /\ chat[r].node = "none" /\ chat[r].pass = "primary"
      /\ chat[r].model_calls = 0 /\ chat[r].tool_calls = 0
      /\ chat[r].pc = "responded" =>
           chat[r].response = Json(400, <<"No message provided">>, << >>, << >>)

C1_Witness ==
  \E r \in Req :
    /\ chat[r].pc = "responded"
    /\ NoMessage(chat[r].body)
    /\ "message" \in chat[r].body.keys
    /\ chat[r].response.status = 400

\* C2: a tools step whose calls are all SQL tool calls with a text classified
\* as something other than SELECT opens no connection, leaves both databases
\* as they were, and answers every call with the read-only error payload.
C2_NonSelectRejected ==
  [][\A r \in Req :
       (ToolsStepOf(r) /\ \A i \in DOMAIN PendingCalls(r) : NonSelect(PendingCalls(r)[i])) =>
         /\ db' = db
         /\ connects' = connects
         /\ openConns' = openConns
         /\ chat'[r].messages =
              chat[r].messages \o
                [i \in DOMAIN PendingCalls(r) |->
                   ToolMessage(ReadOnlyError, PendingCalls(r)[i].name, PendingCalls(r)[i].id)]
    ]_vars

C2_Witness ==
  \E r \in Req :
    /\ Len(chat[r].messages) > 2
    /\ Last(chat[r].messages) =
         ToolMessage(ReadOnlyError, "execute_finance_sql_query", 2)
    /\ chat[r].messages[Len(chat[r].messages) - 1] =
         ToolMessage(ReadOnlyError, "execute_titanic_sql_query", 1)
    /\ db = InitialDb /\ connects = 0

\* C3: a primary pass that raises is followed by at most one recovery pass
\* (at most two runs of the graph per request); a recovery pass that does not
\* raise is answered 200 with the apology prefix before its answer, one that
\* raises is answered 500 with the text of the primary pass's error.
C3_SingleRecoveryPass ==
  \A r \in Req :
    LET c == chat[r]
    IN /\ Len(c.runs) <= 2
       /\ Cardinality({i \in DOMAIN c.runs : c.runs[i] = "recovery"}) <= 1
       /\ Cardinality({i \in DOMAIN c.log : c.log[i][1] = "Error in chat endpoint:"}) <= 1
       /\ (c.pass = "recovery") <=> (c.log # << >>)
       /\ (c.pass = "recovery" /\ c.bound) => Last(c.runs) = "recovery"
       /\ (c.pc = "responded" /\ c.pass = "recovery") =>
            IF Last(c.log)[1] = "Error in retry attempt:"
              THEN c.response = Json(500, ErrorText(c.log[1][2]), << >>, << >>)
            ELSE /\ c.response.status = 200
                 /\ c.retry_response # << >>
                 /\ c.response.response = ApologyPrefix \o c.retry_response

C3_Witness ==
  \E r \in Req :
    /\ chat[r].pc = "responded"
    /\ chat[r].runs = <<"primary", "recovery">>
    /\ chat[r].response.status = 500
    /\ Last(chat[r].log)[2] # chat[r].log[1][2]

\* C4: the 200 response of a primary pass lists exactly the AssistantMessages
\* with content that the pass produced, in order (no user message, no
\* ToolResultMessage), and its `response` is the content of the last
\* AssistantMessage produced.
C4_AllMessagesAreAssistantMessages ==
  \A r \in Req :
    LET c == chat[r]
        ais == SelectSeq(Produced(c), IsAI)
        shown == SelectSeq(ais, HasContent)
    IN (c.pc = "responded" /\ c.pass = "primary" /\ c.response.status = 200) =>
         /\ c.response.all_messages =
              [i \in DOMAIN shown |-> [type |-> "agent", content |-> shown[i].content]]
         /\ c.response.response = Last(ais).content

\* C5 as written: the loop is at END exactly when the most recent
\* AssistantMessage of the conversation has no tool calls.
C5_DoneIffLastAssistantHasNoCalls ==
  \A r \in Req :
    LET c == chat[r]
        ai == {i \in DOMAIN c.messages : IsAI(c.messages[i])}
    IN c.node # "none" =>
         ((c.node = "END") <=> (ai # {} /\ c.messages[Max(ai)].tool_calls = << >>))

\* C5: the loop is at END exactly when the most recent AssistantMessage that
\* a model step of the current run produced has no tool calls, whatever its
\* content; and when the conversation ends with an AssistantMessage that has
\* tool calls, the loop is at the tools node.
C5_DoneIffNoToolCalls ==
  \A r \in Req :
    LET c == chat[r]
        ai == {i \in (SeedLen(c) + 1)..Len(c.messages) : IsAI(c.messages[i])}
    IN c.node # "none" =>
         /\ (c.node = "END") <=> (ai # {} /\ c.messages[Max(ai)].tool_calls = << >>)
         /\ (IsAI(Last(c.messages)) /\ Last(c.messages).tool_calls # << >>) =>
              c.node = "tools"
         /\ (IsAI(Last(c.messages)) /\ Last(c.messages).tool_calls = << >>) =>
              c.node = "END"

C5_Witness ==
  \E r \in Req :
    /\ chat[r].node = "tools"
    /\ HasContent(Last(chat[r].messages))
    /\ Len(chat[r].messages) > SeedLen(chat[r]) + 1

\* C6: a tools step appends one ToolResultMessage per tool call of the batch,
\* the i-th with the i-th call's id and tool name, also when a call fails.
C6_OneResultPerCall ==
  [][\A r \in Req :
       ToolsStepOf(r) =>
         LET before == chat[r].messages
             after == chat'[r].messages
             calls == PendingCalls(r)
         IN /\ Len(after) = Len(before) + Len(calls)
            /\ SubSeq(after, 1, Len(before)) = before
            /\ \A i \in DOMAIN calls :
                 /\ after[Len(before) + i].type = "tool"
                 /\ after[Len(before) + i].tool_call_id = calls[i].id
                 /\ after[Len(before) + i].name = calls[i].name
    ]_vars

\* C7: only a failure of the model invocation makes a run of the graph
\* raise: every error the handler caught from a run is the model's.
C7_ToolErrorsStayInLoop ==
  \A r \in Req :
    LET c == chat[r]
    IN /\ (c.runs # << >> /\ c.runs[1] = "primary") =>
            c.error_msg \in {"", "ModelInvocationError"}
       /\ \A i \in DOMAIN c.log :
            (c.log[i][1] = "Error in retry attempt:" /\ c.bound) =>
              c.log[i][2] = "ModelInvocationError"

\* C8: a request gets no response before its handling ends and exactly one
\* when it ends, with status 200, 400 or 500; every exception of either pass
\* (also one raised before user_message is bound) is logged and ends in an
\* apology-prefixed 200 answer or a 500 error body.
C8_AlwaysOneResponse ==
  \A r \in Req :
    LET c == chat[r]
    IN /\ c.pc # "responded" => c.response = NoResponse
       /\ c.pc = "responded" =>
            /\ c.response.status \in {200, 400, 500}
            /\ ~ENABLED (Chat(r) \/ CallModel(r) \/ CallTool(r))
       /\ c.pass = "recovery" =>
            /\ c.log # << >>
            /\ c.log[1] = <<"Error in chat endpoint:", c.error_msg>>
       /\ (c.pc = "responded" /\ c.pass = "recovery") =>
            \/ /\ c.response.status = 200
               /\ SubSeq(c.response.response, 1, Len(ApologyPrefix)) = ApologyPrefix
            \/ /\ c.response.status = 500
               /\ c.response.error # << >>
               /\ Last(c.log)[1] = "Error in retry attempt:"
       /\ (c.pc = "responded" /\ c.body.kind # "object") => c.response.status = 500

C8_Witness ==
  \E r \in Req :
    /\ chat[r].pc = "responded"
    /\ ~chat[r].bound
    /\ chat[r].response.status = 500
    /\ Len(chat[r].log) > 2

\* C9: no connection that an SQL query tool opened is open once the call is
\* over, whether it returned rows or the execution raised.
C9_NoOpenConnections == openConns = 0

\* C10: an SQL tool call whose text cannot be classified (no statement in
\* it) is answered with an error ToolResultMessage, not with an exception.
C10_UnclassifiableIsErrorPayload ==
  [][\A r \in Req :
       (ToolsStepOf(r) /\ Unclassifiable(PendingCalls(r)[1])) =>
         LET before == chat[r].messages
             after == chat'[r].messages
         IN /\ Len(after) > Len(before)
            /\ after[Len(before) + 1].type = "tool"
            /\ after[Len(before) + 1].tool_call_id = PendingCalls(r)[1].id
            /\ after[Len(before) + 1].content[2] = "error"
    ]_vars
\* s is a prefix of t.
IsPrefix(s, t) == Len(s) <= Len(t) /\ SubSeq(t, 1, Len(s)) = s

\* This step of request r is a node of the graph returning its update: the
\* model has answered, or every tool call of the batch has returned.
NodeReturns(r) ==
  /\ chat[r].pc = "streaming"
  /\ chat'[r] # chat[r]
  /\ chat'[r].log = chat[r].log
  /\ \/ chat'[r].model_calls = chat[r].model_calls + 1
     \/ chat'[r].tool_calls > chat[r].tool_calls

\* This step belongs to the llm node of request r.
LlmStepOf(r) ==
  /\ chat[r].pc = "streaming"
  /\ chat[r].node = "llm"
  /\ chat'[r] # chat[r]

\* C11: a model invocation that fails with its retries exhausted appends no
\* AssistantMessage; the failure reaches the handler, which logs it and, in
\* the primary pass, starts the recovery pass on the error context alone (in
\* the recovery pass it answers 500).
C11_ModelFailurePropagates ==
  [][\A r \in Req :
       (LlmStepOf(r) /\ chat'[r].attempts > max_retries) =>
         /\ Invoking(chat[r]).attempts = max_retries
         /\ chat'[r].model_calls = chat[r].model_calls + 1
         /\ \A i \in DOMAIN chat'[r].messages :
              IsAI(chat'[r].messages[i]) =>
                (i <= Len(chat[r].messages) /\ chat'[r].messages[i] = chat[r].messages[i])
         /\ Len(chat'[r].log) > Len(chat[r].log)
         /\ Last(chat'[r].log)[2] = "ModelInvocationError"
         /\ IF chat[r].pass = "primary"
              THEN /\ chat'[r].pass = "recovery"
                   /\ chat'[r].pc = "streaming" /\ chat'[r].node = "llm"
                   /\ chat'[r].runs = Append(chat[r].runs, "recovery")
                   /\ chat'[r].error_msg = "ModelInvocationError"
                   /\ chat'[r].messages =
                        <<HumanMessage(ErrorContext(chat[r].user_message,
                                                    "ModelInvocationError"))>>
            ELSE /\ chat'[r].pc = "responded"
                 /\ chat'[r].response.status = 500
                 /\ chat'[r].messages = chat[r].messages
    ]_vars

C11_Witness ==
  \E r \in Req :
    /\ chat[r].attempts > max_retries
    /\ chat[r].pass = "recovery"
    /\ chat[r].pc = "streaming"
    /\ chat[r].runs = <<"primary", "recovery">>
    /\ chat[r].model_calls > 1

\* C12: within one run of the graph the conversation is append-only: no step
\* of the run removes or reorders a message, and after every model step and
\* every tools step that returns its update the previous conversation is a
\* strict prefix of the new one (the step has appended at least one message).
C12_AppendOnly ==
  [][\A r \in Req :
       /\ (chat[r].pc = "streaming" /\ chat'[r].runs = chat[r].runs)
            => IsPrefix(chat[r].messages, chat'[r].messages)
       /\ NodeReturns(r)
            => /\ chat'[r].runs = chat[r].runs
               /\ IsPrefix(chat[r].messages, chat'[r].messages)
               /\ Len(chat'[r].messages) > Len(chat[r].messages)
               /\ chat[r].node = "llm"
                    => Len(chat'[r].messages) = Len(chat[r].messages) + 1
               /\ chat[r].node = "tools"
                    => Len(chat'[r].messages)
                         = Len(chat[r].messages) + Len(PendingCalls(r))]_vars

\* A run in which a model step, a tools step of two calls and another model
\* step have each extended the conversation.
C12_Witness ==
  \E r \in Req :
    /\ chat[r].pc = "responded"
    /\ chat[r].runs = <<"primary">>
    /\ chat[r].node = "END"
    /\ Len(Produced(chat[r])) = 4
    /\ chat[r].tool_calls = 2

\* The positions of the conversation that answer the tool call id.
ResultsOf(messages, id) ==
  {j \in 1..Len(messages) : messages[j].type = "tool" /\ messages[j].tool_call_id = id}

\* C13: whenever the model is about to be invoked, every tool call of every
\* assistant message of the conversation has exactly one tool message with
\* its id, and that message comes after the assistant message; no id is
\* answered twice and no tool message answers a call that was not made.
C13_CallsResolvedAtModelInvocation ==
  \A r \in Req :
    (chat[r].pc = "streaming" /\ chat[r].node = "llm")
      => LET ms == chat[r].messages
         IN /\ \A i \in 1..Len(ms) :
                 \A k \in 1..Len(ms[i].tool_calls) :
                   /\ Cardinality(ResultsOf(ms, ms[i].tool_calls[k].id)) = 1
                   /\ \A j \in ResultsOf(ms, ms[i].tool_calls[k].id) : j > i
            /\ \A j \in 1..Len(ms) :
                 ms[j].type = "tool"
                   => \E i \in 1..(j - 1) :
                        \E k \in 1..Len(ms[i].tool_calls) :
                          ms[i].tool_calls[k].id = ms[j].tool_call_id

\* The model is invoked again after a batch of two tool calls has been run.
C13_Witness ==
  \E r \in Req :
    /\ chat[r].pc = "streaming"
    /\ chat[r].node = "llm"
    /\ chat[r].attempts = 0
    /\ \E i \in 1..Len(chat[r].messages) : Len(chat[r].messages[i].tool_calls) = 2

\* The entries of a history tagged "user" or "agent", in their order.
Tagged(history) == SelectSeq(history, LAMBDA e : e.type \in {"user", "agent"})

\* The conversation the claim gives a request whose body is data.
InitialConversation(data) ==
  LET tagged == Tagged(IF "conversation_history" \in data.keys
                         THEN data.conversation_history ELSE << >>)
  IN [i \in 1..Len(tagged) |->
        IF tagged[i].type = "user" THEN HumanMessage(tagged[i].content)
        ELSE AIMessage(tagged[i].content, << >>)]
     \o <<HumanMessage(data.message)>>

\* C14: when the primary run of the graph starts, its conversation is the
\* history's entries tagged "user" or "agent", converted in their order, then
\* the new user message, last; an entry with another tag gives no message;
\* and the node that runs first is the model's.
C14_InitialConversation ==
  \A r \in Req :
    (chat[r].pc = "streaming" /\ chat[r].pass = "primary"
       /\ chat[r].model_calls = 0 /\ chat[r].tool_calls = 0)
      => /\ chat[r].messages = InitialConversation(chat[r].body)
         /\ Last(chat[r].messages) = HumanMessage(chat[r].body.message)
         /\ chat[r].node = "llm"
         /\ chat[r].runs = <<"primary">>

\* The primary run starts from a history of an agent's entry, an entry with
\* another tag and a user's entry.
C14_Witness ==
  \E r \in Req :
    /\ chat[r].pc = "streaming"
    /\ chat[r].pass = "primary"
    /\ chat[r].model_calls = 0
    /\ Len(chat[r].body.conversation_history) = 3
    /\ chat[r].body.conversation_history[1].type = "agent"
    /\ chat[r].body.conversation_history[2].type = "system"
    /\ chat[r].body.conversation_history[3].type = "user"
    /\ Len(chat[r].messages) = 3

\* The text holds the tokens of part, in a row.
Holds(text, part) ==
  \E i \in 0..(Len(text) - Len(part)) : SubSeq(text, i + 1, i + Len(part)) = part

\* C15: the recovery pass starts a new run of the graph whose conversation
\* is one user message, made of the original question and the error's text;
\* it holds no message of the history and none of the failed primary pass,
\* and the node that runs first is the model's.
C15_RecoveryStartsFresh ==
  [][\A r \in Req :
       (chat'[r].runs # chat[r].runs /\ chat'[r].pass = "recovery")
         => /\ chat[r].pass = "primary"
            /\ chat'[r].runs = Append(chat[r].runs, "recovery")
            /\ chat'[r].pc = "streaming"
            /\ chat'[r].node = "llm"
            /\ Len(chat'[r].messages) = 1
            /\ chat'[r].messages[1].type = "human"
            /\ chat'[r].messages[1].tool_calls = << >>
            /\ chat[r].body.message # << >>
            /\ chat'[r].user_message = chat[r].body.message
            /\ Holds(chat'[r].messages[1].content, chat[r].body.message)
            /\ Holds(chat'[r].messages[1].content, <<chat'[r].error_msg>>)
            /\ chat'[r].error_msg = Last(chat'[r].log)[2]
            /\ chat'[r].messages[1] \notin
                 {chat[r].messages[i] : i \in 1..Len(chat[r].messages)}]_vars

\* The recovery pass starts after a primary pass that had a history and had
\* run a model step and was running a tools step.
C15_Witness ==
  \E r \in Req :
    /\ chat[r].pass = "recovery"
    /\ chat[r].pc = "streaming"
    /\ chat[r].runs = <<"primary", "recovery">>
    /\ chat[r].model_calls = 1
    /\ chat[r].attempts = 0
    /\ Len(chat[r].messages) = 1
    /\ Len(chat[r].body.conversation_history) = 1
    /\ Len(chat[r].all_messages) = 2

\* C16: the model's node and the tools node alternate until the run is done:
\* the node that runs after a tools step is the model's, never the tools node
\* again and never the end; the tools node is entered only by a model step
\* whose assistant message has a tool call; the run ends only by a model step.
C16_StepsAlternate ==
  [][\A r \in Req :
       /\ (ToolsStepOf(r) /\ chat'[r].pc = "streaming")
            => chat'[r].node = "llm"
       /\ ToolsStepOf(r) => chat'[r].node # "END"
       /\ (chat'[r].node = "tools" /\ chat'[r] # chat[r])
            => /\ chat[r].node \in {"llm", "tools"}
               /\ chat[r].node = "tools" => chat'[r].pc = "responded"
               /\ chat[r].node = "llm"
                    => /\ LlmStepOf(r)
                       /\ NodeReturns(r)
                       /\ IsAI(Last(chat'[r].messages))
                       /\ Last(chat'[r].messages).tool_calls # << >>
       /\ (chat'[r].node = "END" /\ chat[r].node # "END")
            => /\ LlmStepOf(r)
               /\ NodeReturns(r)
               /\ IsAI(Last(chat'[r].messages))]_vars

\* A run that went model, tools, model, tools, model and is done.
C16_Witness ==
  \E r \in Req :
    /\ chat[r].node = "END"
    /\ chat[r].runs = <<"primary">>
    /\ chat[r].model_calls = 3
    /\ chat[r].tool_calls = 2
    /\ Len(Produced(chat[r])) = 5

\* The run of request r is over: it is done, or a step of it raised.
RunOver(r) ==
  /\ chat[r].pc = "responded"
  /\ \/ chat[r].node = "END" /\ chat[r].response.status = 200
     \/ chat[r].response.status = 500 /\ Last(chat[r].log)[1] = "Error in retry attempt:"

TokensOf(r) ==
  LET texts == {chat[r].messages[i].content : i \in 1..Len(chat[r].messages)}
                 \cup {chat[r].all_messages[i].content : i \in 1..Len(chat[r].all_messages)}
                 \cup {chat[r].response.all_messages[i].content :
                         i \in 1..Len(chat[r].response.all_messages)}
                 \cup {chat[r].final_response, chat[r].retry_response,
                       chat[r].user_message, chat[r].response.response}
  IN UNION {{t[i] : i \in 1..Len(t)} : t \in texts}

\* The tokens only the body of request q holds.
OwnTokens(q) ==
  {chat[q].body.message[i] : i \in 1..Len(chat[q].body.message)}
    \cup UNION {{e.content[i] : i \in 1..Len(e.content)} :
                  e \in {chat[q].body.conversation_history[i] :
                           i \in 1..Len(chat[q].body.conversation_history)}}

\* C18: with two requests in flight, under any interleaving of their
\* steps, a step of one request leaves the other's conversation and locals
\* as they were, and no request's conversation, collected contents or
\* response holds text of the other's body.
C18_ConversationsIsolated ==
  [][\A r \in Req :
       /\ chat'[r] # chat[r] => \A q \in Req \ {r} : chat'[q] = chat[q]
       /\ \A q \in Req \ {r} : (TokensOf(r) \cap OwnTokens(q) = {})'
       /\ chat'[r].body = chat[r].body]_vars

\* Both requests' runs are under way at once, each after a tools step, with
\* conversations of their own.
C18_Witness ==
  /\ \A r \in Req : chat[r].pc = "streaming" /\ chat[r].tool_calls = 1
  /\ chat["r1"].messages[1].content = <<"earlier question">>
  /\ chat["r2"].messages[1].content = <<"other question">>

\* The positions of the conversation of c that were the last message of a
\* state the graph streamed: the last message of the input, every assistant
\* message, and the last tool message of every batch.
StreamedLast(c) ==
  {i \in SeedLen(c)..Len(c.messages) :
     \/ i = SeedLen(c)
     \/ IsAI(c.messages[i])
     \/ i = Len(c.messages)
     \/ IsAI(c.messages[i + 1])}

\* The contents of the messages of ms at the positions of S, in order, as
\* entries of all_messages.
RECURSIVE ContentsAt(_, _, _)
ContentsAt(ms, S, i) ==
  IF i > Len(ms) THEN << >>
  ELSE (IF i \in S /\ HasContent(ms[i])
          THEN <<[type |-> "agent", content |-> ms[i].content]>> ELSE << >>)
       \o ContentsAt(ms, S, i + 1)

\* C19: in every 200 response of the primary pass, response is the content
\* of the last entry of all_messages, and response is empty exactly when
\* all_messages is; all_messages holds, in order, the content of the last
\* message of every streamed state that has content, whatever the kind of
\* the message (the user's, an assistant's or a tool's).
C19_ResponseIsLastCollected ==
  \A r \in Req :
    (chat[r].pc = "responded" /\ chat[r].pass = "primary"
       /\ chat[r].response.status = 200)
      => LET resp == chat[r].response
         IN /\ (resp.response = << >>) <=> (resp.all_messages = << >>)
            /\ resp.all_messages # << >>
                 => resp.response = Last(resp.all_messages).content
            /\ resp.all_messages
                 = ContentsAt(chat[r].messages, StreamedLast(chat[r]), 1)
            /\ \A i \in 1..Len(resp.all_messages) :
                 resp.all_messages[i].type = "agent"

\* A 200 response of the primary pass whose all_messages holds the user's
\* message, a tool's result and the assistant's answer.
C19_Witness ==
  \E r \in Req :
    /\ chat[r].pc = "responded"
    /\ chat[r].pass = "primary"
    /\ chat[r].response.status = 200
    /\ Len(chat[r].response.all_messages) = 3
    /\ chat[r].response.all_messages[2].content[1] = "{"
    /\ chat[r].response.response = <<"answer">>

\* The content of the last message of ms that has content (empty if none).
RECURSIVE LastContent(_, _)
LastContent(ms, i) ==
  IF i = 0 THEN << >>
  ELSE IF HasContent(ms[i]) THEN ms[i].content
  ELSE LastContent(ms, i - 1)

====
